---- MODULE Spec2Model ----
(***************************************************************************)
(* Model of src/src/Trusted.ts (class Trusted, lines 232-468): a Root      *)
(* (Trusted) with its key registry, the accessors it provisions, and the   *)
(* localStorage-like backing store the accessors read and write.           *)
(***************************************************************************)
EXTENDS Integers, Sequences, FiniteSets

(***************************************************************************)
(* Bounds of the model.                                                    *)
(***************************************************************************)
\* numbers used as values and defaults are 0..MaxNum
MaxNum == 1

\* arrays, objects, Maps and Sets used as values hold up to MaxItems items
MaxItems == 1

(***************************************************************************)
(* JavaScript values.  Every value is a record of one shape so that any    *)
(* two values can be compared: t is the kind, s the payload of a string,   *)
(* n the payload of a number (or 0/1 for a boolean).                       *)
(***************************************************************************)
Undefined == [t |-> "undefined", s |-> "", n |-> 0]
Null == [t |-> "null", s |-> "", n |-> 0]
Str(x) == [t |-> "string", s |-> x, n |-> 0]
Num(k) == [t |-> "number", s |-> "", n |-> k]
Bool(b) == [t |-> "boolean", s |-> "", n |-> IF b THEN 1 ELSE 0]

\* Arrays, plain objects, Maps, Sets and Dates carry their content in e: the
\* items of an array or a Set, the <<name, value>> properties of an object and
\* the <<key, value>> entries of a Map, in insertion order.  A Date carries its
\* time value in n, in milliseconds; the time value of an invalid Date is NaN.
Arr(items) == [t |-> "array", s |-> "", n |-> 0, e |-> items]
Obj(props) == [t |-> "object", s |-> "", n |-> 0, e |-> props]
MapOf(entries) == [t |-> "map", s |-> "", n |-> 0, e |-> entries]
SetOf(items) == [t |-> "set", s |-> "", n |-> 0, e |-> items]
DateOf(ms) == [t |-> "date", s |-> "", n |-> ms]
NaN == -1
InvalidDate == DateOf(NaN)

\* the kinds of value that are objects
ObjectKinds == {"array", "object", "map", "set", "date"}

\* typeof v
TypeOf(v) == IF v.t = "null" \/ v.t \in ObjectKinds THEN "object" ELSE v.t

\* ToBoolean(v): what `!v`, `v && ...` test
Truthy(v) ==
  CASE v.t = "string" -> v.s # ""
    [] v.t = "number" -> v.n # 0
    [] v.t = "boolean" -> v.n = 1
    [] v.t \in ObjectKinds -> TRUE
    [] OTHER -> FALSE

Digit(d) == SubSeq("0123456789", d + 1, d + 1)

RECURSIVE NumStr(_)
\* Number.prototype.toString for a natural number
NumStr(k) == IF k < 10 THEN Digit(k) ELSE NumStr(k \div 10) \o Digit(k % 10)

\* String(v): the coercion of template literals and of Storage.setItem
StringOf(v) ==
  CASE v.t = "string" -> v.s
    [] v.t = "number" -> NumStr(v.n)
    [] v.t = "boolean" -> IF v.n = 1 THEN "true" ELSE "false"
    [] v.t = "null" -> "null"
    [] v.t = "object" -> "[object Object]"
    [] v.t = "map" -> "[object Map]"
    [] v.t = "set" -> "[object Set]"
    [] OTHER -> "undefined"

IsDigit(c) == \E d \in 0..9 : c = Digit(d)

DigitVal(c) == CHOOSE d \in 0..9 : c = Digit(d)

Chars(x) == {SubSeq(x, i, i) : i \in 1..Len(x)}

RECURSIVE ParseNat(_)
ParseNat(x) ==
  IF Len(x) = 1 THEN DigitVal(x)
  ELSE 10 * ParseNat(SubSeq(x, 1, Len(x) - 1)) + DigitVal(SubSeq(x, Len(x), Len(x)))

\* a JSON number without sign, fraction or exponent: 0 | [1-9][0-9]*
IsJSONNat(x) ==
  /\ Len(x) >= 1
  /\ \A c \in Chars(x) : IsDigit(c)
  /\ (Len(x) > 1 => SubSeq(x, 1, 1) # "0")

\* a JSON string literal without escapes: "..."
IsJSONStr(x) ==
  /\ Len(x) >= 2
  /\ SubSeq(x, 1, 1) = "\""
  /\ SubSeq(x, Len(x), Len(x)) = "\""
  /\ \A i \in 2..(Len(x) - 1) : SubSeq(x, i, i) \notin {"\"", "\\"}

\* the result of a call: a returned value or a thrown exception
Ret(v) == [ok |-> TRUE, v |-> v]
Throw == [ok |-> FALSE, v |-> Undefined]

RECURSIVE Join(_, _)
\* Array.prototype.join on strings
Join(xs, sep) ==
  IF Len(xs) = 0 THEN ""
  ELSE IF Len(xs) = 1 THEN xs[1]
  ELSE xs[1] \o sep \o Join(Tail(xs), sep)

\* the digits of k, padded with zeros to width w
Pad(k, w) == IF w = 3 /\ k < 10 THEN "00" \o NumStr(k)
             ELSE IF (w = 3 /\ k < 100) \/ (w = 2 /\ k < 10) THEN "0" \o NumStr(k)
             ELSE NumStr(k)

\* the first minute of the epoch, where the Dates of the model lie
ISOPrefix == "1970-01-01T00:00:"

\* Date.prototype.toISOString for a valid Date in the first minute of the epoch
toISOString(d) ==
  ISOPrefix \o Pad(d.n \div 1000, 2) \o "." \o Pad(d.n % 1000, 3) \o "Z"

\* new Date(x): the Date of an ISO string in the first minute of the epoch, an
\* invalid Date for a string that is no date
NewDate(x) ==
  IF /\ Len(x) = 24
     /\ SubSeq(x, 1, 17) = ISOPrefix
     /\ \A i \in {18, 19, 21, 22, 23} : IsDigit(SubSeq(x, i, i))
     /\ SubSeq(x, 20, 20) = "."
     /\ SubSeq(x, 24, 24) = "Z"
     /\ DigitVal(SubSeq(x, 18, 18)) < 6
  THEN DateOf(1000 * (10 * DigitVal(SubSeq(x, 18, 18)) + DigitVal(SubSeq(x, 19, 19)))
              + 100 * DigitVal(SubSeq(x, 21, 21)) + 10 * DigitVal(SubSeq(x, 22, 22))
              + DigitVal(SubSeq(x, 23, 23)))
  ELSE InvalidDate

RECURSIVE JSONStringify(_)
\* JSON.stringify(v); undefined for undefined.  In an array undefined becomes
\* null, in an object a property whose value is undefined is left out, a Date
\* becomes its toJSON string (null when invalid), a Map or Set becomes {}.
JSONStringify(v) ==
  LET text(el) == IF el.t = "undefined" THEN "null" ELSE JSONStringify(el).s
      defined == IF v.t = "object" THEN SelectSeq(v.e, LAMBDA p : p[2].t # "undefined")
                 ELSE <<>>
  IN  CASE v.t = "string" -> Str("\"" \o v.s \o "\"")
        [] v.t = "undefined" -> Undefined
        [] v.t = "array" ->
             Str("[" \o Join([i \in 1..Len(v.e) |-> text(v.e[i])], ",") \o "]")
        [] v.t = "object" ->
             Str("{" \o Join([i \in 1..Len(defined) |->
                                "\"" \o defined[i][1] \o "\":" \o text(defined[i][2])], ",")
                     \o "}")
        [] v.t \in {"map", "set"} -> Str("{}")
        [] v.t = "date" ->
             IF v.n = NaN THEN Str("null") ELSE Str("\"" \o toISOString(v) \o "\"")
        [] OTHER -> Str(StringOf(v))

RECURSIVE SplitTop(_, _, _, _, _)
\* the pieces of x from index start on, cut at the commas that are outside
\* strings and brackets; i is the index read, depth the bracket depth
SplitTop(x, i, start, depth, inStr) ==
  IF i > Len(x) THEN <<SubSeq(x, start, Len(x))>>
  ELSE LET c == SubSeq(x, i, i)
       IN  IF inStr THEN SplitTop(x, i + 1, start, depth, c # "\"")
           ELSE IF c = "\"" THEN SplitTop(x, i + 1, start, depth, TRUE)
           ELSE IF c \in {"[", "{"} THEN SplitTop(x, i + 1, start, depth + 1, FALSE)
           ELSE IF c \in {"]", "}"} THEN SplitTop(x, i + 1, start, depth - 1, FALSE)
           ELSE IF c = "," /\ depth = 0
           THEN <<SubSeq(x, start, i - 1)>> \o SplitTop(x, i + 1, i + 1, 0, FALSE)
           ELSE SplitTop(x, i + 1, start, depth, FALSE)

\* x is open ... close
Bracketed(x, open, close) ==
  Len(x) >= 2 /\ SubSeq(x, 1, 1) = open /\ SubSeq(x, Len(x), Len(x)) = close

\* the members of a JSON array or object text: the pieces between its brackets
Members(x) ==
  IF Len(x) = 2 THEN <<>> ELSE SplitTop(SubSeq(x, 2, Len(x) - 1), 1, 1, 0, FALSE)

\* the index of the quote that closes the name of the member "name":value
NameEnd(m) ==
  IF Len(m) >= 2 /\ SubSeq(m, 1, 1) = "\"" /\ \E i \in 2..Len(m) : SubSeq(m, i, i) = "\""
  THEN CHOOSE i \in 2..Len(m) :
         SubSeq(m, i, i) = "\"" /\ \A j \in 2..(i - 1) : SubSeq(m, j, j) # "\""
  ELSE 0

RECURSIVE JSONParse(_)
\* JSON.parse(x), for JSON text without white space: throws a SyntaxError on
\* text that is not JSON
JSONParse(x) ==
  CASE x = "true" -> Ret(Bool(TRUE))
    [] x = "false" -> Ret(Bool(FALSE))
    [] x = "null" -> Ret(Null)
    [] IsJSONNat(x) -> Ret(Num(ParseNat(x)))
    [] IsJSONStr(x) -> Ret(Str(SubSeq(x, 2, Len(x) - 1)))
    [] Bracketed(x, "[", "]") ->
         LET ms == Members(x)
         IN  IF \A i \in 1..Len(ms) : JSONParse(ms[i]).ok
             THEN Ret(Arr([i \in 1..Len(ms) |-> JSONParse(ms[i]).v]))
             ELSE Throw
    [] Bracketed(x, "{", "}") ->
         LET ms == Members(x)
             good(m) == /\ NameEnd(m) > 0
                        /\ Len(m) > NameEnd(m) + 1
                        /\ SubSeq(m, NameEnd(m) + 1, NameEnd(m) + 1) = ":"
                        /\ JSONParse(SubSeq(m, NameEnd(m) + 2, Len(m))).ok
         IN  IF \A i \in 1..Len(ms) : good(ms[i])
             THEN Ret(Obj([i \in 1..Len(ms) |->
                            <<SubSeq(ms[i], 2, NameEnd(ms[i]) - 1),
                              JSONParse(SubSeq(ms[i], NameEnd(ms[i]) + 2, Len(ms[i]))).v>>]))
             ELSE Throw
    [] OTHER -> Throw

\* does x contain y as a substring
Contains(x, y) ==
  \E i \in 1..(Len(x) - Len(y) + 1) : SubSeq(x, i, i + Len(y) - 1) = y

(***************************************************************************)
(* Inputs: the values, options and strings the callers pass.               *)
(***************************************************************************)
Numbers == {Num(k) : k \in 0..MaxNum}

Strings == {Str(""), Str("hello"), Str("hello world")}

\* the values passed to set and given as defaultValue (Undefined: not given)
Values == {Undefined, Null, Bool(FALSE), Bool(TRUE)} \cup Numbers \cup Strings

\* the key every accessor is provisioned with, and the namespaces of a Root
SuppliedKey == "test"
Namespaces == {Undefined, Str("blue-")}

\* the keys of the backing store and of the registry
StoreKeys == {"test", "blue-test"}

\* strings written to the store behind the accessors' back
ExternalStrings == {"0", "hello country"}

\* the items of the arrays, objects, Maps and Sets passed as values
Elems == {Str("world"), Num(1), Null, Undefined, DateOf(0),
          Obj(<<<<"hello", Str("world")>>>>)}

\* the sequences of up to MaxItems items
ElemSeqs == UNION {[1..n -> Elems] : n \in 0..MaxItems}

\* the names of an object's properties and the keys of a Map, in order
PropNames == <<"a", "b", "c">>
MapKeys == <<Str("a"), Num(1), Str("c")>>

Arrays == {Arr(es) : es \in ElemSeqs}
Objects == {Obj([i \in 1..Len(es) |-> <<PropNames[i], es[i]>>]) : es \in ElemSeqs}
Maps == {MapOf([i \in 1..Len(es) |-> <<MapKeys[i], es[i]>>]) : es \in ElemSeqs}
Sets == {SetOf(es) : es \in {x \in ElemSeqs :
                               \A i, j \in 1..Len(x) : i # j => x[i] # x[j]}}
Dates == {DateOf(0), DateOf(1500), InvalidDate}

\* the values passed to set on an accessor of object, array, map, set or date
Shaped == Arrays \cup Objects \cup Maps \cup Sets \cup Dates

\* the default values given to those wrappers (Undefined: not given)
ShapedDefaults ==
  {Undefined, Arr(<<Str("world")>>), Obj(<<<<"hello", Str("world")>>>>),
   MapOf(<<<<Str("world"), Obj(<<<<"hello", Str("world")>>>>)>>>>),
   SetOf(<<Str("hello"), Str("world")>>), DateOf(1500), InvalidDate}

\* JSON text written to the store behind the accessors' back
ExternalJSON == {"[1]", "{\"a\":1}", "\"ab\"", "null"}

\* validate functions and schemas: "none" stands for an option not given
ValidateFns == {"none", "isNumber"}
Schemas == {"none", "matchesWorld"}

\* marshal / unmarshal functions, and the pairs of them the caller passes
MarshalFns == {"none", "json"}
UnmarshalFns == {"none", "json"}
MarshalPairs == {<<"none", "none">>, <<"json", "json">>, <<"json", "none">>}

\* validate(v), for a validate function or a schema's isValidSync
Valid(f, v) ==
  CASE f = "isNumber" -> TypeOf(v) = "number"
    [] f = "matchesWorld" -> v.t = "undefined" \/ (v.t = "string" /\ Contains(v.s, "world"))
    [] f = "isArray" -> v.t = "array"
    [] f = "isMap" -> v.t = "map"
    [] f = "isSet" -> v.t = "set"
    [] f = "isDate" -> v.t = "date"
    [] OTHER -> TRUE

\* the validate function a test gives to the wrapper of a kind of value:
\* Array.isArray, value instanceof Map / Set / Date
InstanceOf(kind) ==
  CASE kind = "array" -> "isArray"
    [] kind = "map" -> "isMap"
    [] kind = "set" -> "isSet"
    [] kind = "date" -> "isDate"
    [] OTHER -> "none"

\* Array.from(v): the items of an array or Set, the entries of a Map, the
\* characters of a string, nothing for another value
ArrayFrom(v) ==
  CASE v.t \in {"array", "set"} -> Arr(v.e)
    [] v.t = "map" -> Arr([i \in 1..Len(v.e) |-> Arr(v.e[i])])
    [] v.t = "string" -> Arr([i \in 1..Len(v.s) |-> Str(SubSeq(v.s, i, i))])
    [] OTHER -> Arr(<<>>)

\* SameValueZero(x, y): primitives by value, objects by identity; the objects
\* met here are distinct objects
SameValueZero(x, y) == x.t \notin ObjectKinds /\ x = y

RECURSIVE Distinct(_)
\* the items of a Set built by adding the items of xs in order
Distinct(xs) ==
  IF Len(xs) = 0 THEN <<>>
  ELSE LET front == Distinct(SubSeq(xs, 1, Len(xs) - 1))
           last == xs[Len(xs)]
       IN  IF \E i \in 1..Len(front) : SameValueZero(front[i], last)
           THEN front
           ELSE Append(front, last)

\* entry[i] for an entry object: an item of an array, a property of an object
EntryPart(entry, i) ==
  CASE entry.t = "array" -> IF Len(entry.e) > i THEN entry.e[i + 1] ELSE Undefined
    [] entry.t = "object" ->
         IF \E j \in 1..Len(entry.e) : entry.e[j][1] = NumStr(i)
         THEN entry.e[CHOOSE j \in 1..Len(entry.e) : entry.e[j][1] = NumStr(i)][2]
         ELSE Undefined
    [] OTHER -> Undefined

RECURSIVE MapEntries(_)
\* the entries of a Map built by setting the entries xs in order: a key set
\* again keeps its place and takes the new value
MapEntries(xs) ==
  IF Len(xs) = 0 THEN <<>>
  ELSE LET front == MapEntries(SubSeq(xs, 1, Len(xs) - 1))
           k == EntryPart(xs[Len(xs)], 0)
           v == EntryPart(xs[Len(xs)], 1)
       IN  IF \E i \in 1..Len(front) : SameValueZero(front[i][1], k)
           THEN [i \in 1..Len(front) |->
                   IF SameValueZero(front[i][1], k) THEN <<k, v>> ELSE front[i]]
           ELSE Append(front, <<k, v>>)

\* new Map(v): a TypeError for a value that is not iterable or holds an item
\* that is not an object
NewMap(v) ==
  CASE v.t \in {"null", "undefined"} -> Ret(MapOf(<<>>))
    [] v.t \in {"array", "string"} ->
         IF \A i \in 1..Len(ArrayFrom(v).e) : ArrayFrom(v).e[i].t \in ObjectKinds
         THEN Ret(MapOf(MapEntries(ArrayFrom(v).e)))
         ELSE Throw
    [] OTHER -> Throw

\* new Set(v): a TypeError for a value that is not iterable
NewSet(v) ==
  CASE v.t \in {"null", "undefined"} -> Ret(SetOf(<<>>))
    [] v.t \in {"array", "string"} -> Ret(SetOf(Distinct(ArrayFrom(v).e)))
    [] OTHER -> Throw

\* marshal(v) throws: toISOString raises a RangeError on an invalid Date and
\* does not exist on a value that is no Date
MarshalThrows(f, v) == f = "date" /\ (v.t # "date" \/ v.n = NaN)

\* every wrapper marshalling with JSON.stringify alone
Marshal_PlainJSON(f, v) == JSONStringify(v)

\* marshal(v): the value the marshal function returns when it does not throw
Marshal(f, v) ==
  CASE f = "json" -> JSONStringify(v)
    [] f \in {"map", "set"} -> JSONStringify(ArrayFrom(v))
    [] f = "date" -> IF MarshalThrows(f, v) THEN Undefined ELSE Str(toISOString(v))
    [] OTHER -> v

\* unmarshal(x): the value returned, or a thrown exception
Unmarshal(f, x) ==
  CASE f = "json" -> JSONParse(x)
    [] f = "map" -> IF JSONParse(x).ok THEN NewMap(JSONParse(x).v) ELSE Throw
    [] f = "set" -> IF JSONParse(x).ok THEN NewSet(JSONParse(x).v) ELSE Throw
    [] f = "date" -> Ret(NewDate(x))
    [] OTHER -> Ret(Str(x))

(***************************************************************************)
(* State.                                                                  *)
(***************************************************************************)
VARIABLES
  namespace,       \* Trusted.namespace
  options,         \* the options the caller provisions its accessors with
  registeredKeys,  \* Trusted.registeredKeys
  localStorage,    \* the backing store: key -> item
  held,            \* the accessor the caller holds (the closure's captures)
  claims,          \* history: the keys an accessor claimed and nobody released
  out,             \* the last call: what it was given, returned and logged
  other            \* a second Root: its namespace and its registeredKeys

vars == <<namespace, options, registeredKeys, localStorage, held, claims, out, other>>

\* an item of the store: absent, or a string
NoItem == [has |-> FALSE, s |-> ""]
Item(x) == [has |-> TRUE, s |-> x]

\* Storage.getItem / setItem / removeItem
getItem(ls, key) == IF ls[key].has THEN Str(ls[key].s) ELSE Null
setItem(ls, key, v) == [ls EXCEPT ![key] = Item(StringOf(v))]
removeItem(ls, key) == [ls EXCEPT ![key] = NoItem]

NoAccessor ==
  [made |-> FALSE, key |-> "", defaultValue |-> Undefined, validate |-> "none",
   marshal |-> "none", unmarshal |-> "none"]

\* out before any call; afterRepair: the call is a get that follows a get which
\* took the repair path; releasedOther: the call is an unregister by an
\* accessor created with skipRegistration in the call before, on a key whose
\* claimant has not called unregister; wasClaimed: the call is a release of a
\* key that the registry held
NoCall ==
  [op |-> "new", key |-> "", skip |-> FALSE, arg |-> Undefined, ret |-> Undefined,
   path |-> "", afterRepair |-> FALSE, releasedOther |-> FALSE,
   wasClaimed |-> FALSE, err |-> "", diag |-> ""]

\* TrustedAccessorOptions<T> without the key and the skipRegistration flag
AccessorOptions ==
  {o \in [defaultValue : Values, yupSchema : Schemas, validate : ValidateFns,
          marshal : MarshalFns, unmarshal : UnmarshalFns] :
     <<o.marshal, o.unmarshal>> \in MarshalPairs}

\* new Trusted({ namespace }): a Root with an empty registry
Root(ns) == [namespace |-> ns, registeredKeys |-> {}]

TypeOK ==
  /\ namespace \in Namespaces
  /\ other.namespace \in Namespaces
  /\ other.registeredKeys \subseteq StoreKeys
  /\ options \in AccessorOptions
  /\ registeredKeys \subseteq StoreKeys
  /\ DOMAIN localStorage = StoreKeys
  /\ held.made \in BOOLEAN
  /\ held.made => held.key \in StoreKeys
  /\ claims \subseteq StoreKeys

\* new Trusted(options): the state after construction
Init ==
  /\ namespace \in Namespaces
  /\ options \in AccessorOptions
  /\ registeredKeys = {}
  /\ localStorage \in [StoreKeys -> {NoItem, Item("0")}]
  /\ held = NoAccessor
  /\ claims = {}
  /\ out = NoCall
  /\ other = Root(Undefined)

(***************************************************************************)
(* Trusted: the registry and the provisioning of accessors.                *)
(***************************************************************************)
\* registerKey without the duplicate check
registerKey_NeverThrows(keys, key) == [err |-> "", keys |-> keys \cup {key}]

\* registerKey(key): the error thrown ("" when none) and the registry after
registerKey(keys, key) ==
  IF key \in keys
  THEN [err |-> "DuplicateKey", keys |-> keys]
  ELSE [err |-> "", keys |-> keys \cup {key}]

\* unregisterKey that claims the key when the registry does not hold it
unregisterKey_Toggles(keys, key) ==
  IF key \in keys THEN keys \ {key} ELSE keys \cup {key}

\* unregisterKey that deletes nothing
unregisterKey_Keeps(keys, key) == keys

\* unregisterKey that empties the registry
unregisterKey_Clears(keys, key) == {}

\* unregisterKey(key): the registry after
unregisterKey(keys, key) == keys \ {key}

\* key resolution that ignores the namespace
ResolveKey_Unprefixed(ns, key) == key

\* `${this.namespace || ''}${options.key}`
ResolveKey(ns, key) == (IF Truthy(ns) THEN ns.s ELSE "") \o key

\* validator resolution that prefers the schema to the validate function
ResolveValidate_SchemaFirst(o) == IF o.yupSchema # "none" THEN o.yupSchema ELSE o.validate

\* validate = yupSchema ? value => yupSchema.isValidSync(value) : undefined,
\* the default of the destructured options.validate
ResolveValidate(o) == IF o.validate # "none" THEN o.validate ELSE o.yupSchema

\* the closure accessor(options) returns
Closure(ns, o) ==
  [made |-> TRUE, key |-> ResolveKey(ns, o.key), defaultValue |-> o.defaultValue,
   validate |-> ResolveValidate(o), marshal |-> o.marshal, unmarshal |-> o.unmarshal]

\* accessor that claims the key before it checks the default value
accessor_RegistersFirst(ns, keys, o) ==
  LET key == ResolveKey(ns, o.key)
      validate == ResolveValidate(o)
      defaultValue == o.defaultValue
      reg == IF o.skipRegistration THEN [err |-> "", keys |-> keys]
             ELSE registerKey(keys, key)
      failed(e) == [err |-> e, keys |-> reg.keys, acc |-> NoAccessor]
  IN  IF reg.err # ""
      THEN failed(reg.err)
      ELSE IF Truthy(defaultValue) /\ validate # "none" /\ ~Valid(validate, defaultValue)
      THEN failed("InvalidDefault")
      ELSE IF Truthy(defaultValue) /\ TypeOf(defaultValue) # "string" /\ o.marshal = "none"
      THEN failed("MissingMarshal")
      ELSE [err |-> "", keys |-> reg.keys, acc |-> Closure(ns, o)]

\* accessor that claims the key whatever skipRegistration says
accessor_AlwaysRegisters(ns, keys, o) ==
  LET key == ResolveKey(ns, o.key)
      validate == ResolveValidate(o)
      defaultValue == o.defaultValue
      failed(e) == [err |-> e, keys |-> keys, acc |-> NoAccessor]
  IN  IF Truthy(defaultValue) /\ validate # "none" /\ ~Valid(validate, defaultValue)
      THEN failed("InvalidDefault")
      ELSE IF Truthy(defaultValue) /\ TypeOf(defaultValue) # "string" /\ o.marshal = "none"
      THEN failed("MissingMarshal")
      ELSE IF registerKey(keys, key).err # ""
      THEN failed(registerKey(keys, key).err)
      ELSE [err |-> "", keys |-> registerKey(keys, key).keys, acc |-> Closure(ns, o)]

\* accessor(options): the error thrown ("" when none), the registry after and
\* the accessor returned
accessor(ns, keys, o) ==
  LET key == ResolveKey(ns, o.key)
      validate == ResolveValidate(o)
      defaultValue == o.defaultValue
      failed(e) == [err |-> e, keys |-> keys, acc |-> NoAccessor]
  IN  IF Truthy(defaultValue) /\ validate # "none" /\ ~Valid(validate, defaultValue)
      THEN failed("InvalidDefault")
      ELSE IF Truthy(defaultValue) /\ TypeOf(defaultValue) # "string" /\ o.marshal = "none"
      THEN failed("MissingMarshal")
      ELSE IF ~o.skipRegistration /\ registerKey(keys, key).err # ""
      THEN failed(registerKey(keys, key).err)
      ELSE [err |-> "",
            keys |-> IF o.skipRegistration THEN keys ELSE registerKey(keys, key).keys,
            acc |-> Closure(ns, o)]

(***************************************************************************)
(* The accessor: get and set.                                              *)
(***************************************************************************)
\* get without the validation of the stored value
get_SkipsValidation(a, ls) ==
  LET item == getItem(ls, a.key)
      un == IF a.unmarshal # "none" THEN Unmarshal(a.unmarshal, item.s) ELSE Ret(item)
      defaultValue == a.defaultValue
  IN  IF Truthy(item) /\ un.ok
      THEN [err |-> "", path |-> "valid", ret |-> un.v, ls |-> ls]
      ELSE [err |-> "", path |-> "repair", ret |-> defaultValue,
            ls |-> IF a.marshal # "none" /\ Truthy(defaultValue)
                   THEN setItem(ls, a.key, Marshal(a.marshal, defaultValue))
                   ELSE IF TypeOf(defaultValue) = "string"
                   THEN setItem(ls, a.key, defaultValue)
                   ELSE IF defaultValue = Undefined
                   THEN removeItem(ls, a.key)
                   ELSE ls]

\* get that writes the value it read back to the store, marshaled again
get_RewritesValid(a, ls) ==
  LET item == getItem(ls, a.key)
      un == IF a.unmarshal # "none" THEN Unmarshal(a.unmarshal, item.s) ELSE Ret(item)
      valid == /\ Truthy(item)
               /\ un.ok
               /\ (a.validate = "none" \/ Valid(a.validate, un.v))
      defaultValue == a.defaultValue
  IN  IF valid
      THEN [err |-> "", path |-> "valid", ret |-> un.v,
            ls |-> setItem(ls, a.key, Marshal(a.marshal, un.v))]
      ELSE [err |-> "", path |-> "repair", ret |-> defaultValue,
            ls |-> IF a.marshal # "none" /\ Truthy(defaultValue)
                   THEN setItem(ls, a.key, Marshal(a.marshal, defaultValue))
                   ELSE IF TypeOf(defaultValue) = "string"
                   THEN setItem(ls, a.key, defaultValue)
                   ELSE IF defaultValue = Undefined
                   THEN removeItem(ls, a.key)
                   ELSE ls]

\* get that leaves an invalid entry in place when there is no default
get_KeepsInvalid(a, ls) ==
  LET item == getItem(ls, a.key)
      un == IF a.unmarshal # "none" THEN Unmarshal(a.unmarshal, item.s) ELSE Ret(item)
      valid == /\ Truthy(item)
               /\ un.ok
               /\ (a.validate = "none" \/ Valid(a.validate, un.v))
      defaultValue == a.defaultValue
  IN  IF valid
      THEN [err |-> "", path |-> "valid", ret |-> un.v, ls |-> ls]
      ELSE [err |-> "", path |-> "repair", ret |-> defaultValue,
            ls |-> IF a.marshal # "none" /\ Truthy(defaultValue)
                   THEN setItem(ls, a.key, Marshal(a.marshal, defaultValue))
                   ELSE IF TypeOf(defaultValue) = "string"
                   THEN setItem(ls, a.key, defaultValue)
                   ELSE ls]

\* get(): the path taken, the value returned and the store after; err when
\* marshal(defaultValue), called in the catch block, throws
get(a, ls) ==
  LET item == getItem(ls, a.key)
      un == IF a.unmarshal # "none" THEN Unmarshal(a.unmarshal, item.s) ELSE Ret(item)
      valid == /\ Truthy(item)
               /\ un.ok
               /\ (a.validate = "none" \/ Valid(a.validate, un.v))
      defaultValue == a.defaultValue
  IN  IF valid
      THEN [err |-> "", path |-> "valid", ret |-> un.v, ls |-> ls]
      ELSE IF a.marshal # "none" /\ Truthy(defaultValue)
              /\ MarshalThrows(a.marshal, defaultValue)
      THEN [err |-> "MarshalError", path |-> "repair", ret |-> Undefined, ls |-> ls]
      ELSE [err |-> "", path |-> "repair", ret |-> defaultValue,
            ls |-> IF a.marshal # "none" /\ Truthy(defaultValue)
                   THEN setItem(ls, a.key, Marshal(a.marshal, defaultValue))
                   ELSE IF TypeOf(defaultValue) = "string"
                   THEN setItem(ls, a.key, defaultValue)
                   ELSE IF defaultValue = Undefined
                   THEN removeItem(ls, a.key)
                   ELSE ls]

\* set that writes a non-string value, coerced to a string, when there is no
\* marshal function
set_CoercesNonString(a, ls, value) ==
  IF a.validate # "none" /\ Truthy(value) /\ ~Valid(a.validate, value)
  THEN [err |-> "", diag |-> "error", ls |-> ls]
  ELSE IF a.marshal # "none" /\ Truthy(value)
  THEN [err |-> "", diag |-> "", ls |-> setItem(ls, a.key, Marshal(a.marshal, value))]
  ELSE [err |-> "", diag |-> IF TypeOf(value) = "string" THEN "" ELSE "warn",
        ls |-> setItem(ls, a.key, value)]

\* set(value): what was logged ("" when nothing) and the store after; err
\* when marshal(value) throws
set(a, ls, value) ==
  IF a.validate # "none" /\ Truthy(value) /\ ~Valid(a.validate, value)
  THEN [err |-> "", diag |-> "error", ls |-> ls]
  ELSE IF a.marshal # "none" /\ Truthy(value) /\ MarshalThrows(a.marshal, value)
  THEN [err |-> "MarshalError", diag |-> "", ls |-> ls]
  ELSE IF a.marshal # "none" /\ Truthy(value)
  THEN [err |-> "", diag |-> "", ls |-> setItem(ls, a.key, Marshal(a.marshal, value))]
  ELSE IF TypeOf(value) = "string"
  THEN [err |-> "", diag |-> "", ls |-> setItem(ls, a.key, value)]
  ELSE [err |-> "", diag |-> "warn", ls |-> ls]

\* getKey(): the key resolved at creation
getKey(a) == Str(a.key)

\* getDefaultValue(): the default value captured at creation
getDefaultValue(a) == a.defaultValue

(***************************************************************************)
(* Actions: one per call.                                                  *)
(***************************************************************************)
\* the options passed to accessor or to a typed wrapper: the caller's options
\* with the key and the skipRegistration flag of this call
CallOptions(skip) ==
  [key |-> SuppliedKey, defaultValue |-> options.defaultValue,
   yupSchema |-> options.yupSchema, validate |-> options.validate,
   skipRegistration |-> skip, marshal |-> options.marshal,
   unmarshal |-> options.unmarshal]

\* { ...accessorOptions, marshal: m, unmarshal: u }
WithMarshal(o, m, u) == [o EXCEPT !.marshal = m, !.unmarshal = u]

\* the options that reach accessor when the caller calls op: string passes
\* them through, boolean, number, object and array add JSON.stringify /
\* JSON.parse, map, set and date their own pair ("Trusted.set" names the set
\* wrapper, "set" the accessor's set)
Passed(op, skip) ==
  IF op \in {"boolean", "number", "object", "array"}
  THEN WithMarshal(CallOptions(skip), "json", "json")
  ELSE IF op = "map" THEN WithMarshal(CallOptions(skip), "map", "map")
  ELSE IF op = "Trusted.set" THEN WithMarshal(CallOptions(skip), "set", "set")
  ELSE IF op = "date" THEN WithMarshal(CallOptions(skip), "date", "date")
  ELSE CallOptions(skip)

ProvisionOps == {"accessor", "string", "boolean", "number"}

\* TrustedTypeAccessorOptions<T>: no marshal / unmarshal, a default of type T
IsTypeOptions(type) ==
  /\ options.marshal = "none"
  /\ options.unmarshal = "none"
  /\ options.defaultValue.t \in {"undefined", type}

\* a creation that writes the default value to the store
Provision_WritesStore(op, skip) ==
  LET o == Passed(op, skip)
      r == accessor(namespace, registeredKeys, o)
  IN  /\ registeredKeys' = r.keys
      /\ held' = IF r.err = "" THEN r.acc ELSE held
      /\ claims' = IF r.err = "" /\ ~skip
                   THEN claims \cup {ResolveKey(namespace, o.key)}
                   ELSE claims
      /\ out' = [NoCall EXCEPT !.op = op, !.key = ResolveKey(namespace, o.key),
                               !.skip = o.skipRegistration, !.err = r.err]
      /\ localStorage' = IF r.err = "" /\ TypeOf(o.defaultValue) = "string"
                         THEN setItem(localStorage, ResolveKey(namespace, o.key),
                                      o.defaultValue)
                         ELSE localStorage
      /\ UNCHANGED <<other, namespace, options>>

\* a call of accessor(o) by the caller or by a typed wrapper
Provision(op, skip) ==
  LET o == Passed(op, skip)
      r == accessor(namespace, registeredKeys, o)
  IN  /\ registeredKeys' = r.keys
      /\ held' = IF r.err = "" THEN r.acc ELSE held
      /\ claims' = IF r.err = "" /\ ~skip
                   THEN claims \cup {ResolveKey(namespace, o.key)}
                   ELSE claims
      /\ out' = [NoCall EXCEPT !.op = op, !.key = ResolveKey(namespace, o.key),
                               !.skip = o.skipRegistration, !.err = r.err]
      /\ UNCHANGED <<other, namespace, options, localStorage>>

Accessor == \E skip \in BOOLEAN : Provision("accessor", skip)

String ==
  /\ IsTypeOptions("string")
  /\ \E skip \in BOOLEAN : Provision("string", skip)

Boolean ==
  /\ IsTypeOptions("boolean")
  /\ \E skip \in BOOLEAN : Provision("boolean", skip)

Number ==
  /\ IsTypeOptions("number")
  /\ \E skip \in BOOLEAN : Provision("number", skip)

Get ==
  /\ held.made
  /\ LET r == get(held, localStorage)
     IN  /\ localStorage' = r.ls
         /\ out' = [NoCall EXCEPT !.op = "get", !.key = held.key, !.ret = r.ret,
                                  !.path = r.path, !.err = r.err,
                                  !.afterRepair = (out.op = "get" /\ out.path = "repair")]
  /\ UNCHANGED <<other, namespace, options, registeredKeys, held, claims>>

Set ==
  /\ held.made
  /\ \E value \in Values :
       LET r == set(held, localStorage, value)
       IN  /\ localStorage' = r.ls
           /\ out' = [NoCall EXCEPT !.op = "set", !.key = held.key, !.arg = value,
                                    !.diag = r.diag, !.err = r.err]
  /\ UNCHANGED <<other, namespace, options, registeredKeys, held, claims>>

\* remove that releases the key as well
Remove_ReleasesKey ==
  /\ held.made
  /\ localStorage' = removeItem(localStorage, held.key)
  /\ registeredKeys' = unregisterKey(registeredKeys, held.key)
  /\ out' = [NoCall EXCEPT !.op = "remove", !.key = held.key]
  /\ UNCHANGED <<other, namespace, options, held, claims>>

Remove ==
  /\ held.made
  /\ localStorage' = removeItem(localStorage, held.key)
  /\ out' = [NoCall EXCEPT !.op = "remove", !.key = held.key]
  /\ UNCHANGED <<other, namespace, options, registeredKeys, held, claims>>

\* unregister that deletes the stored entry as well
Unregister_RemovesItem ==
  /\ held.made
  /\ registeredKeys' = unregisterKey(registeredKeys, held.key)
  /\ claims' = claims \ {held.key}
  /\ localStorage' = removeItem(localStorage, held.key)
  /\ out' = [NoCall EXCEPT !.op = "unregister", !.key = held.key]
  /\ UNCHANGED <<other, namespace, options, held>>

Unregister ==
  /\ held.made
  /\ registeredKeys' = unregisterKey(registeredKeys, held.key)
  /\ claims' = claims \ {held.key}
  /\ out' = [NoCall EXCEPT !.op = "unregister", !.key = held.key,
                           !.wasClaimed = held.key \in registeredKeys,
                           !.releasedOther = /\ out.op \in ProvisionOps
                                             /\ out.skip
                                             /\ out.err = ""
                                             /\ held.key \in claims]
  /\ UNCHANGED <<other, namespace, options, localStorage, held>>

GetKey ==
  /\ held.made
  /\ out' = [NoCall EXCEPT !.op = "getKey", !.key = held.key, !.ret = getKey(held)]
  /\ UNCHANGED <<other, namespace, options, registeredKeys, localStorage, held, claims>>

\* getDefaultValue that writes the default to the store, as a repair does
GetDefaultValue_WritesStore ==
  /\ held.made
  /\ localStorage' = setItem(localStorage, held.key, held.defaultValue)
  /\ out' = [NoCall EXCEPT !.op = "getDefaultValue", !.key = held.key,
                           !.ret = getDefaultValue(held)]
  /\ UNCHANGED <<other, namespace, options, registeredKeys, held, claims>>

GetDefaultValue ==
  /\ held.made
  /\ out' = [NoCall EXCEPT !.op = "getDefaultValue", !.key = held.key,
                           !.ret = getDefaultValue(held)]
  /\ UNCHANGED <<other, namespace, options, registeredKeys, localStorage, held, claims>>

\* direct calls of the Root's public registerKey / unregisterKey
RegisterKey ==
  \E key \in StoreKeys :
    LET r == registerKey(registeredKeys, key)
    IN  /\ registeredKeys' = r.keys
        /\ out' = [NoCall EXCEPT !.op = "registerKey", !.key = key, !.err = r.err]
        /\ UNCHANGED <<other, namespace, options, localStorage, held, claims>>

UnregisterKey ==
  \E key \in StoreKeys :
    /\ registeredKeys' = unregisterKey(registeredKeys, key)
    /\ claims' = claims \ {key}
    /\ out' = [NoCall EXCEPT !.op = "unregisterKey", !.key = key,
                             !.wasClaimed = key \in registeredKeys]
    /\ UNCHANGED <<other, namespace, options, localStorage, held>>

\* the store is written behind the accessors' back
ExternalSetItem ==
  \E x \in ExternalStrings :
    LET key == ResolveKey(namespace, SuppliedKey)
    IN  /\ localStorage' = setItem(localStorage, key, Str(x))
        /\ out' = [NoCall EXCEPT !.op = "external", !.key = key]
        /\ UNCHANGED <<other, namespace, options, registeredKeys, held, claims>>

Next ==
  \/ Accessor
  \/ String
  \/ Boolean
  \/ Number
  \/ Get
  \/ Set
  \/ Remove
  \/ Unregister
  \/ GetKey
  \/ GetDefaultValue
  \/ RegisterKey
  \/ UnregisterKey
  \/ ExternalSetItem

Spec == Init /\ [][Next]_vars

(***************************************************************************)
(* Two Roots.  The caller constructs a second Root and provisions          *)
(* accessors from both with plain options: no default, validator or        *)
(* marshal function.                                                       *)
(***************************************************************************)
PlainOptions ==
  [defaultValue |-> Undefined, yupSchema |-> "none", validate |-> "none",
   marshal |-> "none", unmarshal |-> "none"]

InitRoots ==
  /\ namespace \in Namespaces
  /\ options = PlainOptions
  /\ registeredKeys = {}
  /\ localStorage = [k \in StoreKeys |-> NoItem]
  /\ held = NoAccessor
  /\ claims = {}
  /\ out = NoCall
  /\ \E ns \in Namespaces : other = Root(ns)

\* a registry shared by the two Roots
OtherKeys_Shared == registeredKeys \cup other.registeredKeys

\* this.registeredKeys of the second Root
OtherKeys == other.registeredKeys

\* accessor(o) on the second Root; the caller drops the accessor it returns
OtherAccessor ==
  \E skip \in BOOLEAN :
    LET o == CallOptions(skip)
        r == accessor(other.namespace, OtherKeys, o)
    IN  /\ other' = [other EXCEPT !.registeredKeys = r.keys]
        /\ out' = [NoCall EXCEPT !.op = "other.accessor",
                                 !.key = ResolveKey(other.namespace, o.key),
                                 !.skip = skip, !.err = r.err]
        /\ UNCHANGED <<namespace, options, registeredKeys, localStorage, held, claims>>

\* registerKey(key) on the second Root
OtherRegisterKey ==
  \E key \in StoreKeys :
    LET r == registerKey(OtherKeys, key)
    IN  /\ other' = [other EXCEPT !.registeredKeys = r.keys]
        /\ out' = [NoCall EXCEPT !.op = "other.registerKey", !.key = key, !.err = r.err]
        /\ UNCHANGED <<namespace, options, registeredKeys, localStorage, held, claims>>

\* unregisterKey(key) on the second Root
OtherUnregisterKey ==
  \E key \in StoreKeys :
    /\ other' = [other EXCEPT !.registeredKeys = unregisterKey(@, key)]
    /\ out' = [NoCall EXCEPT !.op = "other.unregisterKey", !.key = key]
    /\ UNCHANGED <<namespace, options, registeredKeys, localStorage, held, claims>>

NextRoots ==
  \/ Accessor
  \/ Unregister
  \/ RegisterKey
  \/ UnregisterKey
  \/ OtherAccessor
  \/ OtherRegisterKey
  \/ OtherUnregisterKey

SpecRoots == InitRoots /\ [][NextRoots]_vars

(***************************************************************************)
(* The wrappers of object, array, Map, Set and Date values: one Root       *)
(* whose caller provisions them, sets values of their shape and reads      *)
(* them back.                                                              *)
(***************************************************************************)
\* the kind of value of each of these wrappers
WrapperKind(op) ==
  CASE op = "object" -> "object"
    [] op = "array" -> "array"
    [] op = "map" -> "map"
    [] op = "Trusted.set" -> "set"
    [] op = "date" -> "date"

WrapperOps == {"object", "array", "map", "Trusted.set", "date"}

\* options of a wrapper of this kind: a default value of the kind if any, a
\* validate function that tests the kind if any
IsShapeOptions(kind) ==
  /\ options.marshal = "none"
  /\ options.unmarshal = "none"
  /\ options.defaultValue.t \in {"undefined", kind}
  /\ options.validate \in {"none", InstanceOf(kind)}

WrapperOptions ==
  [defaultValue : ShapedDefaults, yupSchema : {"none"},
   validate : {"none", "isArray", "isMap", "isSet", "isDate"},
   marshal : {"none"}, unmarshal : {"none"}]

InitWrappers ==
  /\ namespace = Undefined
  /\ options \in WrapperOptions
  /\ \E op \in WrapperOps : IsShapeOptions(WrapperKind(op))
  /\ registeredKeys = {}
  /\ localStorage = [k \in StoreKeys |-> NoItem]
  /\ held = NoAccessor
  /\ claims = {}
  /\ out = NoCall
  /\ other = Root(Undefined)

TrustedObject ==
  /\ IsShapeOptions("object")
  /\ \E skip \in BOOLEAN : Provision("object", skip)

TrustedArray ==
  /\ IsShapeOptions("array")
  /\ \E skip \in BOOLEAN : Provision("array", skip)

TrustedMap ==
  /\ IsShapeOptions("map")
  /\ \E skip \in BOOLEAN : Provision("map", skip)

TrustedSet ==
  /\ IsShapeOptions("set")
  /\ \E skip \in BOOLEAN : Provision("Trusted.set", skip)

TrustedDate ==
  /\ IsShapeOptions("date")
  /\ \E skip \in BOOLEAN : Provision("date", skip)

\* the kinds of value of the wrappers that yield the accessor a
HeldKinds(a) ==
  {WrapperKind(op) : op \in {w \in WrapperOps :
     /\ Passed(w, FALSE).marshal = a.marshal
     /\ a.defaultValue.t \in {"undefined", WrapperKind(w)}
     /\ a.validate \in {"none", InstanceOf(WrapperKind(w))}}}

\* set(value) with a value of the accessor's type
SetShaped ==
  /\ held.made
  /\ \E value \in Shaped :
       /\ value.t \in HeldKinds(held)
       /\ LET r == set(held, localStorage, value)
          IN  /\ localStorage' = r.ls
              /\ out' = [NoCall EXCEPT !.op = "set", !.key = held.key, !.arg = value,
                                       !.diag = r.diag, !.err = r.err]
  /\ UNCHANGED <<other, namespace, options, registeredKeys, held, claims>>

\* JSON text written to the store by other code
ExternalSetJSON ==
  \E x \in ExternalJSON :
    LET key == ResolveKey(namespace, SuppliedKey)
    IN  /\ localStorage' = setItem(localStorage, key, Str(x))
        /\ out' = [NoCall EXCEPT !.op = "external", !.key = key]
        /\ UNCHANGED <<other, namespace, options, registeredKeys, held, claims>>

NextWrappers ==
  \/ TrustedObject
  \/ TrustedArray
  \/ TrustedMap
  \/ TrustedSet
  \/ TrustedDate
  \/ Get
  \/ SetShaped
  \/ Remove
  \/ ExternalSetItem
  \/ ExternalSetJSON

SpecWrappers == InitWrappers /\ [][NextWrappers]_vars

(***************************************************************************)
(* The steps inside get: the read of the entry, then its validation and    *)
(* repair, with a second accessor on the same key whose calls could come   *)
(* in between if get were ever suspended.                                  *)
(***************************************************************************)
\* get() from the statement after item = localStorage.getItem(key) on
getFinish(a, ls, item) ==
  LET un == IF a.unmarshal # "none" THEN Unmarshal(a.unmarshal, item.s) ELSE Ret(item)
      valid == /\ Truthy(item)
               /\ un.ok
               /\ (a.validate = "none" \/ Valid(a.validate, un.v))
      defaultValue == a.defaultValue
  IN  IF valid
      THEN [err |-> "", path |-> "valid", ret |-> un.v, ls |-> ls]
      ELSE IF a.marshal # "none" /\ Truthy(defaultValue)
              /\ MarshalThrows(a.marshal, defaultValue)
      THEN [err |-> "MarshalError", path |-> "repair", ret |-> Undefined, ls |-> ls]
      ELSE [err |-> "", path |-> "repair", ret |-> defaultValue,
            ls |-> IF a.marshal # "none" /\ Truthy(defaultValue)
                   THEN setItem(ls, a.key, Marshal(a.marshal, defaultValue))
                   ELSE IF TypeOf(defaultValue) = "string"
                   THEN setItem(ls, a.key, defaultValue)
                   ELSE IF defaultValue = Undefined
                   THEN removeItem(ls, a.key)
                   ELSE ls]

\* a get that gives up control between its read and its repair
Idle_Suspended == TRUE

\* no call is in progress: get is a synchronous function without await or
\* callback into the event loop, so a call made while a get is between its
\* read and its repair does not exist
Idle == out.op # "get.read"

\* a second accessor on the same key, created with skipRegistration and
\* nothing else
Second ==
  Closure(namespace,
          [key |-> SuppliedKey, defaultValue |-> Undefined, yupSchema |-> "none",
           validate |-> "none", skipRegistration |-> TRUE, marshal |-> "none",
           unmarshal |-> "none"])

\* options of the accessor whose get is followed step by step
StepOptions ==
  {o \in AccessorOptions :
     /\ o.defaultValue \in {Undefined, Str("hello world"), Num(1)}
     /\ o.validate = "none"
     /\ o.marshal = o.unmarshal}

InitSteps ==
  /\ namespace = Undefined
  /\ options \in StepOptions
  /\ registeredKeys = {}
  /\ localStorage = [k \in StoreKeys |-> NoItem]
  /\ held = NoAccessor
  /\ claims = {}
  /\ out = NoCall
  /\ other = Root(Undefined)

StepAccessor == Idle /\ Accessor

\* get: item = localStorage.getItem(key)
GetRead ==
  /\ Idle
  /\ held.made
  /\ out' = [NoCall EXCEPT !.op = "get.read", !.key = held.key,
                           !.arg = getItem(localStorage, held.key)]
  /\ UNCHANGED <<other, namespace, options, registeredKeys, localStorage, held, claims>>

\* get: the rest of the call, on the item read
GetFinish ==
  /\ out.op = "get.read"
  /\ LET r == getFinish(held, localStorage, out.arg)
     IN  /\ localStorage' = r.ls
         /\ out' = [NoCall EXCEPT !.op = "get", !.key = held.key, !.ret = r.ret,
                                  !.path = r.path, !.err = r.err]
  /\ UNCHANGED <<other, namespace, options, registeredKeys, held, claims>>

StepSet == Idle /\ Set

StepRemove == Idle /\ Remove

SecondGet ==
  /\ Idle
  /\ LET r == get(Second, localStorage)
     IN  /\ localStorage' = r.ls
         /\ out' = [NoCall EXCEPT !.op = "second.get", !.key = Second.key,
                                  !.ret = r.ret, !.path = r.path, !.err = r.err]
  /\ UNCHANGED <<other, namespace, options, registeredKeys, held, claims>>

SecondSet ==
  /\ Idle
  /\ \E value \in Strings :
       LET r == set(Second, localStorage, value)
       IN  /\ localStorage' = r.ls
           /\ out' = [NoCall EXCEPT !.op = "second.set", !.key = Second.key,
                                    !.arg = value, !.diag = r.diag, !.err = r.err]
  /\ UNCHANGED <<other, namespace, options, registeredKeys, held, claims>>

SecondRemove ==
  /\ Idle
  /\ localStorage' = removeItem(localStorage, Second.key)
  /\ out' = [NoCall EXCEPT !.op = "second.remove", !.key = Second.key]
  /\ UNCHANGED <<other, namespace, options, registeredKeys, held, claims>>

NextSteps ==
  \/ StepAccessor
  \/ GetRead
  \/ GetFinish
  \/ StepSet
  \/ StepRemove
  \/ SecondGet
  \/ SecondSet
  \/ SecondRemove

SpecSteps == InitSteps /\ [][NextSteps]_vars

(***************************************************************************)
(* Properties.  A step whose out'.op names a call is a step of that call:  *)
(* every action records its own name in out.                               *)
(***************************************************************************)
\* the accessor's validator rejects v
Rejects(a, v) == a.validate # "none" /\ ~Valid(a.validate, v)

\* the entry at the accessor's key is absent, or its string does not
\* unmarshal, or the validator rejects its unmarshaled value
EntryInvalid(a, ls) ==
  \/ ~ls[a.key].has
  \/ ~Unmarshal(a.unmarshal, ls[a.key].s).ok
  \/ Rejects(a, Unmarshal(a.unmarshal, ls[a.key].s).v)

\* the entry that holds the stored form of v
Stored(a, v) == Item(StringOf(Marshal(a.marshal, v)))

\* C1: a set(v) of a value the validator rejects, falsy values included,
\* leaves the store unchanged at every key and logs an error.
C1_ValidationGateOnWrite ==
  [][(out'.op = "set" /\ Rejects(held, out'.arg))
       => (localStorage' = localStorage /\ out'.diag = "error")]_vars

\* C2: a value get returns is the unmarshaled string stored at the key, and
\* passes the validator, or it is the default value.
C2_GetReturnsValidOrDefault ==
  out.op = "get" =>
    \/ out.ret = held.defaultValue
    \/ /\ localStorage[held.key].has
       /\ Unmarshal(held.unmarshal, localStorage[held.key].s) = Ret(out.ret)
       /\ ~Rejects(held, out.ret)

\* a get returned a stored value that the validator accepted
C2_Witness ==
  /\ out.op = "get"
  /\ out.path = "valid"
  /\ held.validate # "none"
  /\ out.ret # held.defaultValue

\* C3 as stated: creating a non-skip accessor on a key that an accessor
\* claimed and nobody released fails with the duplicate-key error.
C3_DuplicateKeyError ==
  [][(out'.op \in ProvisionOps /\ ~out'.skip /\ out'.key \in claims)
       => out'.err = "DuplicateKey"]_vars

\* the default-value checks of accessor reject the options
C3_DefaultRejected(o) ==
  /\ Truthy(o.defaultValue)
  /\ \/ Rejects([validate |-> ResolveValidate(o)], o.defaultValue)
     \/ TypeOf(o.defaultValue) # "string" /\ o.marshal = "none"

\* C3 as amended: such a creation always fails, with the duplicate-key error
\* unless the default-value checks reject its options first.
C3_DuplicateCreationFails ==
  [][(out'.op \in ProvisionOps /\ ~out'.skip /\ out'.key \in claims)
       => /\ held' = held
          /\ IF C3_DefaultRejected(Passed(out'.op, out'.skip))
             THEN out'.err \in {"InvalidDefault", "MissingMarshal"}
             ELSE out'.err = "DuplicateKey"]_vars

\* a second non-skip creation on a claimed key failed as a duplicate
C3_Witness ==
  /\ out.op \in ProvisionOps
  /\ ~out.skip
  /\ out.key \in claims
  /\ out.err = "DuplicateKey"

C4_ReadsBack(a, ls) ==
  ls[a.key].has => Unmarshal(a.unmarshal, ls[a.key].s) = Ret(a.defaultValue)

C5_FalsyValueIsStored ==
  [][(/\ out'.op = "set"
      /\ held.marshal # "none"
      /\ held.defaultValue \notin {Undefined, Null}
      /\ out'.arg \in {Num(0), Bool(FALSE)}
      /\ Unmarshal(held.unmarshal, Stored(held, out'.arg).s) = Ret(out'.arg)
      /\ ~Rejects(held, out'.arg))
       => /\ localStorage'[held.key] = Stored(held, out'.arg)
          /\ get(held, localStorage').ret = out'.arg]_vars

\* C6: a get that finds the entry absent or invalid, with a default configured
\* (a falsy one such as 0, false or the empty string included), returns the
\* default and leaves marshal(default) in the store, or the default itself
\* when it is a string and there is no marshal function.
C6_RepairWritesDefault ==
  [][(/\ out'.op = "get"
      /\ held.defaultValue \notin {Undefined, Null}
      /\ EntryInvalid(held, localStorage))
       => /\ out'.ret = held.defaultValue
          /\ (held.marshal # "none" \/ TypeOf(held.defaultValue) = "string"
                => localStorage'[held.key] = Stored(held, held.defaultValue))]_vars

\* C7: a get that finds the entry absent or invalid, with no default
\* configured, returns undefined and leaves no entry at the key.
C7_RepairWithoutDefault ==
  [][(/\ out'.op = "get"
      /\ held.defaultValue = Undefined
      /\ EntryInvalid(held, localStorage))
       => /\ out'.ret = Undefined
          /\ ~localStorage'[held.key].has]_vars

\* a get of an accessor with a validator and no default took the repair path
C7_Witness ==
  /\ out.op = "get"
  /\ out.path = "repair"
  /\ held.defaultValue = Undefined
  /\ held.validate # "none"
  /\ out.ret = Undefined
  /\ ~localStorage[held.key].has

\* C8: a get that finds an entry, the empty string included, whose
\* unmarshaled value the validator accepts returns that value and leaves
\* the store unchanged.
C8_ValidPath ==
  [][(out'.op = "get" /\ ~EntryInvalid(held, localStorage))
       => /\ Ret(out'.ret) = Unmarshal(held.unmarshal, localStorage[held.key].s)
          /\ localStorage' = localStorage]_vars

\* C9: creating an accessor with a default (a falsy one such as the empty
\* string, 0 or false included) that the effective validator rejects fails
\* with the invalid-default error and returns no accessor.
C9_InvalidDefaultRejected ==
  [][(/\ out'.op \in ProvisionOps
      /\ options.defaultValue \notin {Undefined, Null}
      /\ Rejects([validate |-> ResolveValidate(options)], options.defaultValue))
       => (out'.err = "InvalidDefault" /\ held' = held)]_vars

\* C10: no accessor exists with a default that is not a string and no
\* marshal function: its creation failed with the missing-marshal error.
C10_MissingMarshalRejected ==
  held.made =>
    ~(/\ held.defaultValue # Undefined
      /\ TypeOf(held.defaultValue) # "string"
      /\ held.marshal = "none")

\* the caller may call op with its options: accessor takes any options, a
\* typed wrapper those of its type
Allowed(op) == op = "accessor" \/ IsTypeOptions(op)

\* the calls of an accessor's own operations
AccessorOps == {"get", "set", "remove", "unregister", "getKey", "getDefaultValue"}

\* C11: creating an accessor with skipRegistration never fails with the
\* duplicate-key error, whatever the registry holds, and leaves the registry
\* unchanged; it returns the accessor whenever the default-value checks pass.
C11_SkipRegistrationNeverDuplicate ==
  [][(out'.op \in ProvisionOps /\ out'.skip)
       => /\ out'.err # "DuplicateKey"
          /\ registeredKeys' = registeredKeys
          /\ (~C3_DefaultRejected(Passed(out'.op, TRUE))
                => /\ out'.err = ""
                   /\ held' = Closure(namespace, Passed(out'.op, TRUE)))]_vars

\* a skip-registration accessor was created on a key that a non-skip accessor
\* claimed and still holds
C11_Witness ==
  /\ out.op \in ProvisionOps
  /\ out.skip
  /\ out.err = ""
  /\ out.key \in registeredKeys
  /\ out.key \in claims
  /\ held.made

\* C12: the operations of an accessor created with skipRegistration, unregister
\* included, leave the registry unchanged, also when a registered accessor
\* holds a claim on the same key.
C12_SkipAccessorLeavesRegistry ==
  [][(/\ out.op \in ProvisionOps
      /\ out.skip
      /\ out.err = ""
      /\ held.key \in claims
      /\ out'.op \in AccessorOps)
       => registeredKeys' = registeredKeys]_vars

\* C13: a set(v) of a value of the default's type that the validator accepts
\* (or with no validator), falsy values such as 0, false and the empty string
\* included, leaves marshal(v) at the key when a marshal function is
\* configured, and v itself when none is configured and v is a string.
C13_AcceptedWrite ==
  [][(/\ out'.op = "set"
      /\ out'.arg \notin {Undefined, Null}
      /\ held.defaultValue.t = out'.arg.t
      /\ ~Rejects(held, out'.arg))
       => /\ (held.marshal # "none"
                => localStorage'[held.key] = Stored(held, out'.arg))
          /\ (held.marshal = "none" /\ TypeOf(out'.arg) = "string"
                => localStorage'[held.key] = Item(out'.arg.s))]_vars

C15_ReadYourWrite ==
  [][(/\ out'.op = "set"
      /\ held.marshal = "none"
      /\ held.unmarshal = "none"
      /\ TypeOf(held.defaultValue) = "string"
      /\ TypeOf(out'.arg) = "string"
      /\ ~Rejects(held, out'.arg))
       => /\ localStorage'[held.key] = Item(out'.arg.s)
          /\ get(held, localStorage').ret = out'.arg
          /\ get(held, localStorage').ls = localStorage']_vars

\* prefix + suppliedKey, the prefix being empty for a Root without a namespace
C16_PrefixedKey == (IF namespace = Undefined THEN "" ELSE namespace.s) \o SuppliedKey

\* entries another key may hold
C16_OtherEntries == {NoItem, Item("hello world")}

\* C16: get, set, remove and getKey use the key prefix + suppliedKey: they
\* leave the entry at every other key as it is, a get returns the same value
\* whatever another key holds, a remove leaves no entry and a writing set an
\* entry at the prefixed key, and getKey returns the prefixed key.
C16_PrefixResolution ==
  [][(out'.op \in {"get", "set", "remove", "getKey"})
       => /\ held.key = C16_PrefixedKey
          /\ \A k \in StoreKeys \ {C16_PrefixedKey} :
               /\ localStorage'[k] = localStorage[k]
               /\ \A it \in C16_OtherEntries :
                    out'.op = "get"
                      => get(held, [localStorage EXCEPT ![k] = it]).ret = out'.ret
          /\ (out'.op = "remove" => ~localStorage'[C16_PrefixedKey].has)
          /\ (out'.op = "set" /\ out'.diag = "" => localStorage'[C16_PrefixedKey].has)
          /\ (out'.op = "getKey" => out'.ret = Str(C16_PrefixedKey))]_vars

\* an accessor of a Root with the prefix "blue-" wrote at "blue-test" and the
\* entry at "test" stayed absent
C16_Witness ==
  /\ namespace = Str("blue-")
  /\ out.op = "set"
  /\ out.arg = Str("hello world")
  /\ localStorage["blue-test"] = Item("hello world")
  /\ ~localStorage["test"].has

C18_UnregisterReleasesKey ==
  [][(out'.op = "unregister")
       => /\ registeredKeys' = registeredKeys \ {held.key}
          /\ localStorage' = localStorage
          /\ \E op \in {p \in ProvisionOps : Allowed(p)} :
               LET r == accessor(namespace, registeredKeys', Passed(op, FALSE))
               IN  /\ r.err = ""
                   /\ r.keys = registeredKeys' \cup {held.key}
                   /\ \A op2 \in {p \in ProvisionOps : Allowed(p)} :
                        accessor(namespace, r.keys, Passed(op2, FALSE)).err # ""]_vars

\* an accessor released its key while another key stayed in the registry
C18_Witness ==
  /\ out.op = "unregister"
  /\ held.key \notin registeredKeys
  /\ registeredKeys # {}

\* C19: getKey returns the resolved key and getDefaultValue the default the
\* accessor was created with, and neither changes the store, the registry or
\* the accessor.
C19_PureGetters ==
  [][(out'.op \in {"getKey", "getDefaultValue"})
       => /\ (out'.op = "getKey" => out'.ret = Str(C16_PrefixedKey))
          /\ (out'.op = "getDefaultValue" => out'.ret = options.defaultValue)
          /\ localStorage' = localStorage
          /\ registeredKeys' = registeredKeys
          /\ held' = held]_vars

\* getDefaultValue returned the default after a set wrote another value and an
\* unregister released the key
C19_Witness ==
  /\ out.op = "getDefaultValue"
  /\ out.ret = Str("hello")
  /\ localStorage[held.key] = Item("hello world")
  /\ held.key \notin registeredKeys

\* the calls on the first Root that read or change its registry
C20_RootOps == {"accessor", "unregister", "registerKey", "unregisterKey"}

\* the calls on the second Root
C20_OtherOps == {"other.accessor", "other.registerKey", "other.unregisterKey"}

\* C20: a creation, claim or release on one Root leaves the other Root's
\* registry unchanged, and a non-skip creation or a claim fails with the
\* duplicate-key error exactly when the key is in the registry of the Root it
\* is called on, whatever the other Root's registry holds.
C20_RegistriesIndependent ==
  [][/\ (out'.op \in C20_RootOps
           => /\ other' = other
              /\ (out'.op \in {"accessor", "registerKey"} /\ ~out'.skip
                    => (out'.err = "DuplicateKey" <=> out'.key \in registeredKeys)))
     /\ (out'.op \in C20_OtherOps
           => /\ registeredKeys' = registeredKeys
              /\ (out'.op \in {"other.accessor", "other.registerKey"} /\ ~out'.skip
                    => (out'.err = "DuplicateKey" <=> out'.key \in other.registeredKeys)))]_vars

\* the second Root created a non-skip accessor without error on a key that an
\* accessor of the first Root holds
C20_Witness ==
  /\ out.op = "other.accessor"
  /\ ~out.skip
  /\ out.err = ""
  /\ out.key \in other.registeredKeys
  /\ out.key \in registeredKeys
  /\ out.key \in claims

\* C22: a creation through accessor or a typed wrapper, successful or failed
\* with any of the three configuration errors, leaves the store as it is.
C22_CreationLeavesStore ==
  [][(out'.op \in ProvisionOps) => localStorage' = localStorage]_vars

\* a creation succeeded with a default configured while the entry at its key
\* is absent
C22_Witness ==
  /\ out.op \in ProvisionOps
  /\ out.err = ""
  /\ TypeOf(held.defaultValue) = "string"
  /\ held.defaultValue # Str("")
  /\ ~localStorage[out.key].has

\* C24: a non-skip creation fails while an accessor created without
\* skipRegistration on the same key has not itself called unregister, also
\* after an unregister by another accessor of the key.
C24_OneLiveClaimPerKey ==
  [][(/\ out.op = "unregister"
      /\ out.releasedOther
      /\ out'.op \in ProvisionOps
      /\ ~out'.skip
      /\ out'.key = out.key)
       => out'.err # ""]_vars

\* C25: after a get of an accessor whose unmarshal function inverts its
\* marshal function, with a default configured (a falsy one such as 0 or
\* false included), the entry at the key is absent or a string whose
\* unmarshaled value the validator accepts.
C25_SelfHealingPostcondition ==
  (/\ out.op = "get"
   /\ held.marshal = held.unmarshal
   /\ held.defaultValue \notin {Undefined, Null})
    => ~EntryInvalid(held, localStorage)

\* the calls that claim a key of the first Root and those that release one
C26_Claims == ProvisionOps \cup {"registerKey"}
C26_Releases == {"unregister", "unregisterKey"}

\* C26: a key enters a Root's registry exactly in a successful claim of it (a
\* non-skip creation or a registerKey call that does not fail) on that Root
\* and leaves it exactly in a release of it (unregister or unregisterKey) on
\* that Root; after a successful claim the key is in the registry, after a
\* release it is not, and every other call leaves its membership as it is.
C26_RegistryInvariant ==
  [][/\ \A k \in StoreKeys :
          LET claimed == out'.op \in C26_Claims /\ ~out'.skip /\ out'.err = "" /\ out'.key = k
              released == out'.op \in C26_Releases /\ out'.key = k
          IN  k \in registeredKeys' <=> (claimed \/ (k \in registeredKeys /\ ~released))
     /\ \A k \in StoreKeys :
          LET claimed == /\ out'.op \in {"other.accessor", "other.registerKey"}
                         /\ ~out'.skip /\ out'.err = "" /\ out'.key = k
              released == out'.op = "other.unregisterKey" /\ out'.key = k
          IN  k \in other'.registeredKeys
                <=> (claimed \/ (k \in other.registeredKeys /\ ~released))]_vars

\* a registerKey call claimed a key that no accessor claimed, while an
\* accessor's claim on another key is in the registry
C26_Witness ==
  /\ out.op = "registerKey"
  /\ out.err = ""
  /\ out.key \in registeredKeys
  /\ out.key \notin claims
  /\ claims # {}

\* C27: a get that finds the entry absent or invalid, with a default that is
\* not a string and no marshal function, logs a warning, writes the default,
\* coerced to a string by the store, at the key and returns the default.
C27_RepairFallback ==
  [][(/\ out'.op = "get"
      /\ held.defaultValue \notin {Undefined, Null}
      /\ TypeOf(held.defaultValue) # "string"
      /\ held.marshal = "none"
      /\ EntryInvalid(held, localStorage))
       => /\ out'.diag = "warn"
          /\ localStorage'[held.key] = Item(StringOf(held.defaultValue))
          /\ out'.ret = held.defaultValue]_vars

\* the effective validator of the caller's options: validate when given, else
\* the schema when given, else none
C28_Effective ==
  IF options.validate # "none" THEN options.validate
  ELSE IF options.yupSchema # "none" THEN options.yupSchema
  ELSE "none"

\* C28: creation, set and get consult the effective validator only: a creation
\* fails with the invalid-default error exactly when it rejects the (truthy)
\* default, a set logs an error exactly when it rejects the (truthy) value, and
\* a value get read from the store passes it; with neither validate nor
\* yupSchema nothing is rejected.
C28_ValidatorPrecedence ==
  /\ (out.op \in ProvisionOps
        => (out.err = "InvalidDefault"
              <=> Truthy(options.defaultValue)
                    /\ ~Valid(C28_Effective, options.defaultValue)))
  /\ (out.op = "set" /\ Truthy(out.arg)
        => (out.diag = "error" <=> ~Valid(C28_Effective, out.arg)))
  /\ (out.op = "get" /\ out.path = "valid" => Valid(C28_Effective, out.ret))
  /\ (options.validate = "none" /\ options.yupSchema = "none"
        => out.err # "InvalidDefault" /\ out.diag # "error")

\* with validate and yupSchema both given, a set of a value that the schema
\* accepts and validate rejects logged an error
C28_Witness ==
  /\ options.validate = "isNumber"
  /\ options.yupSchema = "matchesWorld"
  /\ out.op = "set"
  /\ out.arg = Str("hello world")
  /\ out.diag = "error"

\* C29: a creation with a default (a falsy one included) that the validator
\* rejects fails with the invalid-default error, and one with a default that
\* is not a string and no marshal function with the missing-marshal error,
\* also when the key is claimed.
C29_OrderOfCreationChecks ==
  [][(/\ out'.op \in ProvisionOps
      /\ ~out'.skip
      /\ out'.key \in registeredKeys
      /\ options.defaultValue \notin {Undefined, Null})
       => LET o == Passed(out'.op, FALSE)
          IN  IF Rejects([validate |-> ResolveValidate(o)], o.defaultValue)
              THEN out'.err = "InvalidDefault"
              ELSE (TypeOf(o.defaultValue) # "string" /\ o.marshal = "none")
                     => out'.err = "MissingMarshal"]_vars

\* C30: a creation that fails, with the invalid-default, the missing-marshal
\* or the duplicate-key error, leaves the registry and the accessor held as
\* they are.
C30_FailedCreationLeavesRegistry ==
  [][(out'.op \in ProvisionOps /\ out'.err # "")
       => /\ out'.err \in {"InvalidDefault", "MissingMarshal", "DuplicateKey"}
          /\ registeredKeys' = registeredKeys
          /\ held' = held]_vars

\* a non-skip creation failed on its default value and its key is not in the
\* registry
C30_Witness ==
  /\ out.op \in ProvisionOps
  /\ ~out.skip
  /\ out.err \in {"InvalidDefault", "MissingMarshal"}
  /\ out.key \notin registeredKeys

(***************************************************************************)
(* C23: round trip of the object, array, map, set and date wrappers.       *)
(***************************************************************************)
RECURSIVE Representable(_)
\* v survives JSON.stringify and JSON.parse: a string, number, boolean or
\* null, or an array or plain object of such values
Representable(v) ==
  CASE v.t \in {"string", "number", "boolean", "null"} -> TRUE
    [] v.t = "array" -> \A i \in 1..Len(v.e) : Representable(v.e[i])
    [] v.t = "object" -> \A i \in 1..Len(v.e) : Representable(v.e[i][2])
    [] OTHER -> FALSE

\* a value of a wrapper's shape whose contents are representable in JSON; a
\* Date that is valid
Faithful(v) ==
  CASE v.t \in {"array", "object"} -> Representable(v)
    [] v.t = "set" -> \A i \in 1..Len(v.e) : Representable(v.e[i])
    [] v.t = "map" ->
         \A i \in 1..Len(v.e) : Representable(v.e[i][1]) /\ Representable(v.e[i][2])
    [] v.t = "date" -> v.n # NaN
    [] OTHER -> FALSE

\* the last call was set(v) on an accessor of one of the five wrappers, with v
\* of the wrapper's shape and accepted by the validator
C23_SetShaped ==
  /\ out.op = "set"
  /\ out.arg.t \in HeldKinds(held)
  /\ (held.validate = "none" \/ Valid(held.validate, out.arg))

\* set(v) returned, unmarshal(marshal(v)) is v, and get() returns v
C23_RoundTrips ==
  /\ out.err = ""
  /\ Unmarshal(held.unmarshal, Marshal(held.marshal, out.arg).s) = Ret(out.arg)
  /\ get(held, localStorage).err = ""
  /\ get(held, localStorage).ret = out.arg

\* C23 as stated: for the object, array, map, set and date wrappers and every
\* value v of the wrapper's shape accepted by the validator,
\* unmarshal(marshal(v)) is value-equal to v, and set(v) followed by get()
\* returns a value equal to v.
C23_RoundTripEveryValue == C23_SetShaped => C23_RoundTrips

\* C23, amended: the round trip holds for the values whose contents are
\* representable in JSON (no undefined item, no Date inside an array, object,
\* Map or Set) and for the valid Dates.
C23_RoundTrip == C23_SetShaped /\ Faithful(out.arg) => C23_RoundTrips

\* a Map with an entry was set on an accessor of the map wrapper that
\* validates with instanceof Map, and the store holds its text
C23_Witness ==
  /\ C23_SetShaped
  /\ Faithful(out.arg)
  /\ out.arg.t = "map"
  /\ Len(out.arg.e) > 0
  /\ held.validate = "isMap"
  /\ localStorage[held.key].has

C21_RaisesOnlyFromMarshal ==
  out.op = "get" /\ out.err # ""
    => /\ out.path = "repair"
       /\ MarshalThrows(held.marshal, held.defaultValue)

\* get met text on which unmarshal throws and returned the default
C21_UnmarshalCaught ==
  /\ out.op = "get"
  /\ out.err = ""
  /\ out.path = "repair"
  /\ held.unmarshal \in {"json", "map", "set"}
  /\ out.ret = held.defaultValue
  /\ Truthy(held.defaultValue)

(***************************************************************************)
(* C31: separation of the effects on the store and on the registry.        *)
(***************************************************************************)
\* the calls that may change the store: set, remove and get (on its repair
\* path); "external" is a write by code other than the accessors
C31_StoreWriters == {"set", "remove", "get", "external"}

\* the calls that may change the registry: the creation of an accessor, which
\* claims with registerKey, the registry's registerKey itself, and the
\* releases unregister and unregisterKey
C31_RegistryWriters == ProvisionOps \cup {"registerKey", "unregister", "unregisterKey"}

C32_ReleaseIdempotent ==
  [][(out'.op \in {"unregisterKey", "unregister"})
       => /\ out'.err = ""
          /\ (out'.key \notin registeredKeys => registeredKeys' = registeredKeys)
          /\ unregisterKey(registeredKeys', out'.key) = registeredKeys'
          /\ \A key \in StoreKeys :
               unregisterKey(unregisterKey(registeredKeys, key), key)
                 = unregisterKey(registeredKeys, key)]_vars

\* unregisterKey was called with a key the registry did not hold, while the
\* registry holds another key
C32_Witness ==
  /\ out.op = "unregisterKey"
  /\ ~out.wasClaimed
  /\ out.err = ""
  /\ registeredKeys # {}
C34_Accepted(a, v) ==
  /\ ~Rejects(a, v)
  /\ (a.marshal # "none" \/ TypeOf(v) = "string")

\* C34: after any sequence of set calls on one accessor with no get or remove
\* in between, the entry at the resolved key is the stored form of the most
\* recent value that set accepted, or the entry's prior content when no call
\* was accepted: every set of a value of the accessor's type either is
\* accepted and leaves the stored form of its value at the key, or is
\* rejected and changes nothing.
C34_LastAcceptedWriteWins ==
  [][(/\ out'.op = "set"
      /\ out'.arg \notin {Undefined, Null}
      /\ held.defaultValue.t = out'.arg.t)
       => IF C34_Accepted(held, out'.arg)
          THEN localStorage' = [localStorage EXCEPT ![held.key] = Stored(held, out'.arg)]
          ELSE localStorage' = localStorage]_vars

(***************************************************************************)
(* C35: remove is not sticky.                                              *)
(***************************************************************************)
\* C35: after remove() the entry is absent, and the next get() on an accessor
\* with a default returns the default and writes its stored form back to the
\* resolved key, while on an accessor without a default it returns undefined
\* and the entry stays absent.
C35_RemoveNotSticky ==
  [][(out.op = "remove" /\ out'.op = "get" /\ held.defaultValue # Null)
       => /\ ~localStorage[held.key].has
          /\ out'.err = ""
          /\ out'.ret = held.defaultValue
          /\ IF held.defaultValue # Undefined
             THEN localStorage'[held.key] = Stored(held, held.defaultValue)
             ELSE ~localStorage'[held.key].has]_vars

\* what does hold: with a truthy default the get after a remove returns the
\* default and writes its stored form back; without a default it returns
\* undefined and the entry stays absent
C35_TruthyDefaultRestored ==
  [][(/\ out.op = "remove"
      /\ out'.op = "get"
      /\ (Truthy(held.defaultValue) \/ held.defaultValue = Undefined))
       => /\ ~localStorage[held.key].has
          /\ out'.err = ""
          /\ out'.ret = held.defaultValue
          /\ IF held.defaultValue # Undefined
             THEN localStorage'[held.key] = Stored(held, held.defaultValue)
             ELSE ~localStorage'[held.key].has]_vars
====
